---- MODULE Spec2Model ----
(***************************************************************************)
(* LinearFitSearch (src/main.cpp): sorted-sequence generators, the five    *)
(* search strategies, VerifyResults and the worker pool of main.           *)
(*                                                                         *)
(* The C++ `float` arithmetic of the generators and of the line fit is     *)
(* IEEE-754 binary32 with round-to-nearest-even, evaluated operation by    *)
(* operation (no fused multiply-add).  It is modelled bit-exactly on       *)
(* 24-bit significands; every intermediate integer stays below 2^31.       *)
(***************************************************************************)
EXTENDS Integers, Sequences, FiniteSets, TLC

(* ------------------------------------------------------------------ *)
(* binary32 arithmetic                                                 *)
(* ------------------------------------------------------------------ *)

\* A float is [k, s, m, e]: kind k ("num", "inf", "nan"), sign s (0 or 1),
\* significand m (0, or 2^23 <= m < 2^24) and exponent e: value (-1)^s * m * 2^e.
RECURSIVE Pow2(_)
Pow2(n) == IF n = 0 THEN 1 ELSE 2 * Pow2(n - 1)

RECURSIVE BitLen(_)
BitLen(n) == IF n = 0 THEN 0 ELSE 1 + BitLen(n \div 2)

FZero == [k |-> "num", s |-> 0, m |-> 0, e |-> 0]
FNaN == [k |-> "nan", s |-> 0, m |-> 0, e |-> 0]
FInf(s) == [k |-> "inf", s |-> s, m |-> 0, e |-> 0]

\* Round the exact value (-1)^s * (M + t) * 2^e, 0 <= t < 1 and t > 0 iff sticky,
\* to the nearest float, ties to even.  With sticky set, M has more than 24 bits.
RoundPack(s, M, e, sticky) ==
    IF M = 0 THEN [FZero EXCEPT !.s = s]
    ELSE LET bits == BitLen(M) IN
         IF bits <= 24
         THEN [k |-> "num", s |-> s, m |-> M * Pow2(24 - bits), e |-> e - (24 - bits)]
         ELSE LET sh == bits - 24
                  q == M \div Pow2(sh)
                  r == M % Pow2(sh)
                  half == Pow2(sh - 1)
                  up == \/ r > half
                        \/ r = half /\ sticky
                        \/ r = half /\ ~sticky /\ q % 2 = 1
                  q1 == IF up THEN q + 1 ELSE q
              IN IF q1 = 16777216
                 THEN [k |-> "num", s |-> s, m |-> 8388608, e |-> e + sh + 1]
                 ELSE [k |-> "num", s |-> s, m |-> q1, e |-> e + sh]

\* float(n) for an unsigned integer n (src/main.cpp:79, 213, 220).
ToFloat(n) == RoundPack(0, n, 0, FALSE)

FNeg(a) == [a EXCEPT !.s = 1 - a.s]

\* |a| >= |b| for two finite floats.
MagGeq(a, b) ==
    IF b.m = 0 THEN TRUE
    ELSE IF a.m = 0 THEN FALSE
    ELSE IF a.e # b.e THEN a.e > b.e
    ELSE a.m >= b.m

\* a + b for finite a, b with |a| >= |b|, both nonzero.  The smaller operand is
\* aligned on three extra low bits, the last one sticky.
AddOrdered(a, b) ==
    LET d == a.e - b.e
        exact == d <= 6
        A == IF exact THEN a.m * Pow2(d) ELSE a.m * 8
        B == IF exact THEN b.m
             ELSE IF d - 3 >= 25 THEN 0
             ELSE b.m \div Pow2(d - 3)
        lost == IF exact THEN FALSE
                ELSE IF d - 3 >= 25 THEN TRUE
                ELSE b.m % Pow2(d - 3) # 0
        ex == IF exact THEN b.e ELSE a.e - 3
    IN IF a.s = b.s
       THEN RoundPack(a.s, A + B, ex, lost)
       ELSE IF lost
            THEN RoundPack(a.s, A - B - 1, ex, TRUE)
            ELSE IF A = B THEN FZero
                 ELSE RoundPack(a.s, A - B, ex, FALSE)

FAdd(a, b) ==
    IF a.k = "nan" \/ b.k = "nan" THEN FNaN
    ELSE IF a.k = "inf" /\ b.k = "inf" THEN (IF a.s = b.s THEN a ELSE FNaN)
    ELSE IF a.k = "inf" THEN a
    ELSE IF b.k = "inf" THEN b
    ELSE IF b.m = 0 THEN (IF a.m = 0 THEN FZero ELSE a)
    ELSE IF a.m = 0 THEN b
    ELSE IF MagGeq(a, b) THEN AddOrdered(a, b) ELSE AddOrdered(b, a)

FSub(a, b) == FAdd(a, FNeg(b))

\* a * b.  The 48-bit product of the significands is formed on 12-bit limbs as
\* hi * 2^24 + lo and its low part folded into a sticky bit.
FMul(a, b) ==
    LET s == (a.s + b.s) % 2 IN
    IF a.k = "nan" \/ b.k = "nan" THEN FNaN
    ELSE IF a.k = "inf" \/ b.k = "inf"
         THEN (IF (a.k = "num" /\ a.m = 0) \/ (b.k = "num" /\ b.m = 0) THEN FNaN ELSE FInf(s))
    ELSE IF a.m = 0 \/ b.m = 0 THEN [FZero EXCEPT !.s = s]
    ELSE LET a1 == a.m \div 4096
             a0 == a.m % 4096
             b1 == b.m \div 4096
             b0 == b.m % 4096
             mid == a1 * b0 + a0 * b1
             low == a0 * b0 + (mid % 4096) * 4096
             hi == a1 * b1 + mid \div 4096 + low \div 16777216
             lo == low % 16777216
             \* hi * 64 + (lo \div 2^18) keeps 6 more bits; the rest is sticky
             M == hi * 64 + lo \div 262144
         IN RoundPack(s, M, a.e + b.e + 18, lo % 262144 # 0)

\* n more quotient bits of rem / d by long division: <<quotient, remainder>>.
RECURSIVE DivBits(_, _, _, _)
DivBits(rem, d, n, q) ==
    IF n = 0 THEN <<q, rem>>
    ELSE IF 2 * rem >= d THEN DivBits(2 * rem - d, d, n - 1, 2 * q + 1)
    ELSE DivBits(2 * rem, d, n - 1, 2 * q)

\* a / b: x / 0 is an infinity and 0 / 0 a NaN, as IEEE-754 has it.
FDiv(a, b) ==
    LET s == (a.s + b.s) % 2 IN
    IF a.k = "nan" \/ b.k = "nan" THEN FNaN
    ELSE IF a.k = "inf" THEN (IF b.k = "inf" THEN FNaN ELSE FInf(s))
    ELSE IF b.k = "inf" THEN [FZero EXCEPT !.s = s]
    ELSE IF b.m = 0 THEN (IF a.m = 0 THEN FNaN ELSE FInf(s))
    ELSE IF a.m = 0 THEN [FZero EXCEPT !.s = s]
    ELSE LET qr == DivBits(a.m % b.m, b.m, 25, a.m \div b.m)
         IN RoundPack(s, qr[1], a.e - b.e - 25, qr[2] # 0)

\* The conversion size_t(y) is defined when the truncated value is representable:
\* not for a NaN, an infinity or a value <= -1.
TruncDefined(y) == y.k = "num" /\ (y.s = 0 \/ y.m = 0 \/ y.e <= -24)

\* size_t(y), truncation toward zero, where defined.
Trunc(y) ==
    IF y.m = 0 THEN 0
    ELSE IF y.e >= 0 THEN y.m * Pow2(y.e)
    ELSE IF y.e <= -24 THEN 0
    ELSE y.m \div Pow2(-y.e)

(* ------------------------------------------------------------------ *)
(* state                                                               *)
(* ------------------------------------------------------------------ *)

VARIABLES
    values,        \* std::vector<size_t> values: the sequence made and searched
    count,         \* the generators' parameter count
    genFn,         \* name of the generator that ran (MakeFns[].name)
    genPc,         \* "call" before the generator ran, "made" after, "idle" otherwise
    divZero,       \* TRUE iff the generator divided by a zero divisor
    searchValue,   \* the target of the search
    fn,            \* name of the strategy under test (TestFns[].name)
    pc,            \* where the trial is: "call", the loop of a strategy,
                   \* "LineFitBlind", "return", "verified", "ub", or "idle"
    minIndex, maxIndex, min, max,   \* the locals of the strategy that runs
    m, b,          \* the fitted line y = m x + b (floats)
    doBinaryStep,  \* the hybrid search's mode
    ret,           \* TestResults ret: [found, index, guesses]
    reads,         \* the indices at which values was read, in order
    probe,         \* the last loop iteration: bracket before it, index probed, mode
    wrapped,       \* TRUE iff an unsigned subtraction wrapped around
    verifyFailed,  \* TRUE iff VerifyResults printed VERIFICATION FAILURE
    numThreads,    \* std::thread::hardware_concurrency()
    spawned,       \* how many threads of the pool main has started
    joined,        \* how many threads of the pool main has joined
    mainPc,        \* where main is: "spawn", "join", "perf", ..., "end", or "idle"
    nextRow,       \* std::atomic<size_t> nextRow
    wpc,           \* where each thread of the pool is
    makeIndex,     \* each thread's local makeIndex
    trial,         \* how many trials each thread has run on its generator
    rngUsers,      \* for each static std::mt19937, the threads inside a call on it
    claims,        \* how often each generator index was fetched from nextRow
    swept          \* the generator indices whose sweep is written out

genVars == <<count, genFn, genPc, divZero>>
searchVars == <<searchValue, fn, pc, minIndex, maxIndex, min, max, m, b, doBinaryStep,
                ret, reads, probe, wrapped, verifyFailed>>

sweepVars == <<numThreads, spawned, joined, mainPc, nextRow, wpc, makeIndex, trial,
               rngUsers, claims, swept>>

vars == <<values, genVars, searchVars, sweepVars>>

NoProbe == [lo |-> 0, hi |-> 0, g |-> 0, binary |-> FALSE]

\* The strategy variables of a run that searches nothing.
IdleSearch ==
    /\ searchValue = 0
    /\ fn = "none"
    /\ pc = "idle"
    /\ minIndex = 0 /\ maxIndex = 0 /\ min = 0 /\ max = 0
    /\ m = FZero /\ b = FZero
    /\ doBinaryStep = FALSE
    /\ ret = [found |-> FALSE, index |-> 0, guesses |-> 0]
    /\ reads = <<>>
    /\ probe = NoProbe
    /\ wrapped = FALSE
    /\ verifyFailed = FALSE

\* The generator variables of a run that generates nothing.
IdleGen ==
    /\ count = 0
    /\ genFn = "none"
    /\ genPc = "idle"
    /\ divZero = FALSE

\* Largest number of threads std::thread::hardware_concurrency() reports.
MaxThreads == 2
\* Trials a thread runs per generator (the code runs 5 * 1000 * 100).
TrialsPerSweep == 1

\* countof(MakeFns)
NumMakeFns == 6

Threads == 1..MaxThreads
\* The thread id of main where it uses a random generator.
MainThread == 0
\* The three static std::mt19937 rng of the program, by the function holding them.
Rngs == {"worker", "MakeList_Random", "main"}

\* The pool variables of a run that starts no thread.
IdleSweep ==
    /\ numThreads = 0
    /\ spawned = 0
    /\ joined = 0
    /\ mainPc = "idle"
    /\ nextRow = 0
    /\ wpc = [w \in Threads |-> "unborn"]
    /\ makeIndex = [w \in Threads |-> 0]
    /\ trial = [w \in Threads |-> 0]
    /\ rngUsers = [r \in Rngs |-> {}]
    /\ claims = [i \in 0..(NumMakeFns + MaxThreads - 1) |-> 0]
    /\ swept = {}

(* ------------------------------------------------------------------ *)
(* MAKE LIST FUNCTIONS                                                 *)
(* ------------------------------------------------------------------ *)

c_maxValue == 2000

\* Largest count for which every generator is run.
MaxCount == 6
\* Largest value MakeList_Random draws in the model (the code draws 0..c_maxValue).
MaxRandom == 2
\* Values an undefined float-to-size_t conversion is let to produce: 0..MaxJunk.
MaxJunk == 2

Counts == 1..MaxCount
\* The smallest count at which single-precision rounding shows in MakeList_Linear
\* (index 251: 251.0f / 500.0f * 2000 is just under 1004).
InexactCount == 500 + 1
JunkValues == 0..MaxJunk

\* The sequence with the elements f[1], ..., f[n], each evaluated once.
Vector(f, n) == SubSeq(f, 1, n)

\* The elements of s placed by rank: element i goes to position rank[i].
Place(s, rank) == [p \in 1..Len(s) |-> s[CHOOSE i \in 1..Len(s) : rank[i] = p]]

\* std::sort(values.begin(), values.end()): the rank of an element is the number
\* of elements that sort before it, plus one.
Sort(s) ==
    Place(s, Vector([i \in 1..Len(s) |->
                 1 + Cardinality({j \in 1..Len(s) : s[j] < s[i] \/ (s[j] = s[i] /\ j < i)})],
                    Len(s)))

\* values[index] as the loop body computes it, before the conversion to size_t;
\* index is the C++ index (0-based).  x is float(index) / float(count - 1).
LinearX(index, n) == FDiv(ToFloat(index), ToFloat(n - 1))
\* LinearY as a generator that rounded to the nearest integer would compute it.
LinearYRounded(index, n) ==
    FAdd(FMul(LinearX(index, n), ToFloat(c_maxValue)),
         [k |-> "num", s |-> 0, m |-> 8388608, e |-> -24])
LinearY(index, n) == FMul(LinearX(index, n), ToFloat(c_maxValue))
QuadraticY(index, n) ==
    FMul(FMul(LinearX(index, n), LinearX(index, n)), ToFloat(c_maxValue))
CubicY(index, n) ==
    FMul(FMul(FMul(LinearX(index, n), LinearX(index, n)), LinearX(index, n)),
         ToFloat(c_maxValue))

\* log(float(n)) for n = 1, 2, ...: the natural logarithm rounded to binary32.
LogTable ==
    << FZero,
       [k |-> "num", s |-> 0, m |-> 11629080, e |-> -24],
       [k |-> "num", s |-> 0, m |-> 9215828, e |-> -23],
       [k |-> "num", s |-> 0, m |-> 11629080, e |-> -23],
       [k |-> "num", s |-> 0, m |-> 13500944, e |-> -23],
       [k |-> "num", s |-> 0, m |-> 15030368, e |-> -23],
       [k |-> "num", s |-> 0, m |-> 16323477, e |-> -23],
       [k |-> "num", s |-> 0, m |-> 8721810, e |-> -22],
       [k |-> "num", s |-> 0, m |-> 9215828, e |-> -22],
       [k |-> "num", s |-> 0, m |-> 9657742, e |-> -22],
       [k |-> "num", s |-> 0, m |-> 10057502, e |-> -22],
       [k |-> "num", s |-> 0, m |-> 10422454, e |-> -22],
       [k |-> "num", s |-> 0, m |-> 10758177, e |-> -22] >>

\* float x = float(index + 1); float y = log(x + 1) / maxValue; y *= c_maxValue
LogY(index, n) == FMul(FDiv(LogTable[index + 2], LogTable[n]), ToFloat(c_maxValue))

IsZero(x) == x.k = "num" /\ x.m = 0

\* The floats a loop computes for the indices 0..n-1: the element at i is Y(i-1).
LinearYs(n) == Vector([i \in 1..n |-> LinearY(i - 1, n)], n)
QuadraticYs(n) == Vector([i \in 1..n |-> QuadraticY(i - 1, n)], n)
CubicYs(n) == Vector([i \in 1..n |-> CubicY(i - 1, n)], n)
LogYs(n) == Vector([i \in 1..n |-> LogY(i - 1, n)], n)

\* The vector a generator leaves: element i is size_t(ys[i]) where that
\* conversion is defined and junk[i] where it is not, then sorted.
Converted(ys, junk) ==
    Sort(Vector([i \in 1..Len(ys) |->
                    IF TruncDefined(ys[i]) THEN Trunc(ys[i]) ELSE junk[i]], Len(ys)))

\* The junk vectors to choose from: one value per undefined conversion.
Junk(ys) ==
    IF \A i \in 1..Len(ys) : TruncDefined(ys[i]) THEN {[i \in 1..Len(ys) |-> 0]}
    ELSE [1..Len(ys) -> JunkValues]

MakeList_Random ==
    /\ genPc = "call"
    /\ count \in Counts
    /\ \E drawn \in [1..count -> 0..MaxRandom] : values' = Sort(drawn)
    /\ genFn' = "Random"
    /\ genPc' = "made"
    /\ divZero' = FALSE
    /\ UNCHANGED <<count, searchVars, sweepVars>>

MakeList_Linear ==
    /\ genPc = "call"
    /\ \E junk \in Junk(LinearYs(count)) :
           values' = Converted(LinearYs(count), junk)
    /\ genFn' = "Linear"
    /\ genPc' = "made"
    /\ divZero' = IsZero(ToFloat(count - 1))
    /\ UNCHANGED <<count, searchVars, sweepVars>>

\* MakeList_Linear(values, count); *values.rbegin() = c_maxValue * 100
MakeList_Linear_Outlier ==
    /\ genPc = "call"
    /\ \E junk \in Junk(LinearYs(count)) :
           values' = [Converted(LinearYs(count), junk) EXCEPT ![count] = c_maxValue * 100]
    /\ genFn' = "Linear Outlier"
    /\ genPc' = "made"
    /\ divZero' = IsZero(ToFloat(count - 1))
    /\ UNCHANGED <<count, searchVars, sweepVars>>

MakeList_Quadratic ==
    /\ genPc = "call"
    /\ \E junk \in Junk(QuadraticYs(count)) :
           values' = Converted(QuadraticYs(count), junk)
    /\ genFn' = "Quadratic"
    /\ genPc' = "made"
    /\ divZero' = IsZero(ToFloat(count - 1))
    /\ UNCHANGED <<count, searchVars, sweepVars>>

MakeList_Cubic ==
    /\ genPc = "call"
    /\ \E junk \in Junk(CubicYs(count)) :
           values' = Converted(CubicYs(count), junk)
    /\ genFn' = "Cubic"
    /\ genPc' = "made"
    /\ divZero' = IsZero(ToFloat(count - 1))
    /\ UNCHANGED <<count, searchVars, sweepVars>>

\* float maxValue = log(float(count)) is the divisor of every element.
MakeList_Log ==
    /\ genPc = "call"
    /\ count \in Counts
    /\ \E junk \in Junk(LogYs(count)) :
           values' = Converted(LogYs(count), junk)
    /\ genFn' = "Log"
    /\ genPc' = "made"
    /\ divZero' = IsZero(LogTable[count])
    /\ UNCHANGED <<count, searchVars, sweepVars>>

InitGen ==
    /\ count \in Counts \cup {InexactCount}
    /\ values = <<>>
    /\ genFn = "none"
    /\ genPc = "call"
    /\ divZero = FALSE
    /\ IdleSearch
    /\ IdleSweep

NextGen ==
    \/ MakeList_Random
    \/ MakeList_Linear
    \/ MakeList_Linear_Outlier
    \/ MakeList_Quadratic
    \/ MakeList_Cubic
    \/ MakeList_Log

SpecGen == InitGen /\ [][NextGen]_vars

(* ------------------------------------------------------------------ *)
(* TEST LIST FUNCTIONS                                                 *)
(* ------------------------------------------------------------------ *)

\* Longest sequence and largest value of the sequences searched exhaustively.
MaxLen == 4
MaxVal == 5

\* size_t arithmetic is modulo 2^64.  The model's indices stay far below that;
\* SizeModulus stands for 2^64 where a subtraction wraps around.
SizeModulus == Pow2(30)
SizeSub(x, y) == IF x >= y THEN x - y ELSE x - y + SizeModulus

TestFns == {"Linear Search", "Line Fit", "Line Fit Blind", "Binary Search", "Hybrid"}

\* values[i] for the C++ index i, and whether i is inside the vector.
InRange(i) == i >= 0 /\ i < Len(values)
At(i) == values[i + 1]

\* T Clamp(T min, T max, T value)
Clamp(lo, hi, value) ==
    IF value < lo THEN lo
    ELSE IF value > hi THEN hi
    ELSE value

\* One pass of the while (1) of TestList_LinearSearch on the result r so far:
\* the result after it, whether the loop was left, and the index read (if any).
LinearSearchIter(vals, sv, r) ==
    IF r.index >= Len(vals) THEN [ret |-> r, done |-> TRUE, read |-> <<>>]
    ELSE LET r1 == [r EXCEPT !.guesses = @ + 1]
             value == vals[r.index + 1]
         IN IF value = sv
            THEN [ret |-> [r1 EXCEPT !.found = TRUE], done |-> TRUE, read |-> <<r.index>>]
            ELSE IF value > sv
            THEN [ret |-> r1, done |-> TRUE, read |-> <<r.index>>]
            ELSE [ret |-> [r1 EXCEPT !.index = @ + 1], done |-> FALSE, read |-> <<r.index>>]

RECURSIVE LinearSearchFrom(_, _, _)
LinearSearchFrom(vals, sv, r) ==
    LET it == LinearSearchIter(vals, sv, r)
    IN IF it.done THEN it.ret ELSE LinearSearchFrom(vals, sv, it.ret)

\* TestResults TestList_LinearSearch(values, searchValue), run to its return.
TestList_LinearSearch(vals, sv) ==
    LinearSearchFrom(vals, sv, [found |-> FALSE, index |-> 0, guesses |-> 0])

\* Where a strategy returns to: TestList_LineFitBlind called TestList_LineFit.
RetPc == IF fn = "Line Fit Blind" THEN "LineFitBlind" ELSE "return"

LinearSearchCall ==
    /\ pc = "call"
    /\ fn = "Linear Search"
    /\ ret' = [found |-> FALSE, index |-> 0, guesses |-> 0]
    /\ pc' = "LinearSearch"
    /\ UNCHANGED <<values, genVars, sweepVars, searchValue, fn, minIndex, maxIndex, min, max, m, b,
                   doBinaryStep, reads, probe, wrapped, verifyFailed>>

LinearSearchLoop ==
    /\ pc = "LinearSearch"
    /\ LET it == LinearSearchIter(values, searchValue, ret)
       IN /\ ret' = it.ret
          /\ reads' = reads \o it.read
          /\ pc' = IF it.done THEN "return" ELSE "LinearSearch"
    /\ UNCHANGED <<values, genVars, sweepVars, searchValue, fn, minIndex, maxIndex, min, max, m, b,
                   doBinaryStep, probe, wrapped, verifyFailed>>

\* if (searchValue < min || searchValue > max)
OutOfRange(sv, lo, hi) == sv < lo \/ sv > hi

\* NotFound with the assignment to ret.found forgotten.
NotFoundForgotten(r) == r

\* ret.found = false; return ret;
NotFound(r) == [r EXCEPT !.found = FALSE]

\* m = (float(max) - float(min)) / float(maxIndex - minIndex)
FitM(loIndex, hiIndex, lo, hi) ==
    FDiv(FSub(ToFloat(hi), ToFloat(lo)), ToFloat(SizeSub(hiIndex, loIndex)))

\* b = float(min) - m * float(minIndex)
FitB(loIndex, lo, slope) == FSub(ToFloat(lo), FMul(slope, ToFloat(loIndex)))

Half == [k |-> "num", s |-> 0, m |-> 8388608, e |-> -24]

\* 0.5f + (float(searchValue) - b) / m, before its conversion to size_t
LineGuess == FAdd(Half, FDiv(FSub(ToFloat(searchValue), b), m))

\* The values size_t(0.5f + ...) can take: the truncation, or anything where the
\* conversion is undefined.
LineGuessIndex == IF TruncDefined(LineGuess) THEN {Trunc(LineGuess)} ELSE JunkValues

\* Exhausted giving up one index early.
ExhaustedEarly(loIndex, hiIndex) == loIndex + 2 >= hiIndex

\* Exhausted that waits for the bracket to close.
ExhaustedLate(loIndex, hiIndex) == loIndex >= hiIndex

\* if (minIndex + 1 >= maxIndex): no place is left to look at
Exhausted(loIndex, hiIndex) == loIndex + 1 >= hiIndex

\* The part TestList_LineFit and TestList_HybridSearch share before their loop:
\* the end points are read, the target is compared with them, a line is fitted.
FitCall(loop) ==
    LET last == SizeSub(Len(values), 1) IN
    /\ minIndex' = 0
    /\ maxIndex' = last
    /\ wrapped' = (wrapped \/ Len(values) < 1)
    /\ reads' = reads \o <<0, last>>
    /\ IF ~InRange(last)
       THEN /\ pc' = "ub"
            /\ UNCHANGED <<min, max, m, b, ret>>
       ELSE /\ min' = At(0)
            /\ max' = At(last)
            /\ \E junk \in JunkValues :
                 LET r == [found |-> TRUE, index |-> junk, guesses |-> 0] IN
                 IF OutOfRange(searchValue, At(0), At(last))
                 THEN ret' = NotFound(r) /\ pc' = RetPc /\ UNCHANGED <<m, b>>
                 ELSE IF searchValue = At(0)
                 THEN ret' = [r EXCEPT !.index = 0] /\ pc' = RetPc /\ UNCHANGED <<m, b>>
                 ELSE IF searchValue = At(last)
                 THEN ret' = [r EXCEPT !.index = last] /\ pc' = RetPc /\ UNCHANGED <<m, b>>
                 ELSE /\ ret' = r
                      /\ pc' = loop
                      /\ m' = FitM(0, last, At(0), At(last))
                      /\ b' = FitB(0, At(0), FitM(0, last, At(0), At(last)))
    /\ doBinaryStep' = FALSE
    /\ UNCHANGED <<values, genVars, sweepVars, searchValue, fn, probe, verifyFailed>>

\* One pass of the while (1) of TestList_LineFit and of TestList_HybridSearch,
\* which differ in the index g0 they guess and in the mode of the next pass.
FitLoop(g0, nextBinaryStep) ==
    LET guessIndex == Clamp(minIndex + 1, SizeSub(maxIndex, 1), g0) IN
    /\ wrapped' = (wrapped \/ maxIndex < 1)
    /\ reads' = Append(reads, guessIndex)
    /\ probe' = [lo |-> minIndex, hi |-> maxIndex, g |-> guessIndex, binary |-> doBinaryStep]
    /\ IF ~InRange(guessIndex)
       THEN /\ pc' = "ub"
            /\ ret' = [ret EXCEPT !.guesses = @ + 1]
            /\ UNCHANGED <<minIndex, maxIndex, min, max, m, b, doBinaryStep>>
       ELSE LET guess == At(guessIndex)
                tooLow == guess < searchValue
                loIndex == IF tooLow THEN guessIndex ELSE minIndex
                hiIndex == IF tooLow THEN maxIndex ELSE guessIndex
                lo == IF tooLow THEN guess ELSE min
                hi == IF tooLow THEN max ELSE guess
            IN IF guess = searchValue
               THEN /\ ret' = [ret EXCEPT !.guesses = @ + 1, !.index = guessIndex]
                    /\ pc' = RetPc
                    /\ UNCHANGED <<minIndex, maxIndex, min, max, m, b, doBinaryStep>>
               ELSE /\ minIndex' = loIndex
                    /\ maxIndex' = hiIndex
                    /\ min' = lo
                    /\ max' = hi
                    /\ IF Exhausted(loIndex, hiIndex)
                       THEN /\ ret' = NotFound([ret EXCEPT !.guesses = @ + 1])
                            /\ pc' = RetPc
                            /\ UNCHANGED <<m, b, doBinaryStep>>
                       ELSE /\ ret' = [ret EXCEPT !.guesses = @ + 1]
                            /\ pc' = pc
                            /\ m' = FitM(loIndex, hiIndex, lo, hi)
                            /\ b' = FitB(loIndex, lo, FitM(loIndex, hiIndex, lo, hi))
                            /\ doBinaryStep' = nextBinaryStep
    /\ UNCHANGED <<values, genVars, sweepVars, searchValue, fn, verifyFailed>>

LineFitCall ==
    /\ pc = "call"
    /\ fn \in {"Line Fit", "Line Fit Blind"}
    /\ FitCall("LineFit")

LineFitLoop ==
    /\ pc = "LineFit"
    /\ \E g0 \in LineGuessIndex : FitLoop(g0, doBinaryStep)

\* ret.guesses += 2 of TestList_LineFitBlind
BlindGuesses(r) == [r EXCEPT !.guesses = @ + 2]

LineFitBlindReturn ==
    /\ pc = "LineFitBlind"
    /\ ret' = BlindGuesses(ret)
    /\ pc' = "return"
    /\ UNCHANGED <<values, genVars, sweepVars, searchValue, fn, minIndex, maxIndex, min, max, m, b,
                   doBinaryStep, reads, probe, wrapped, verifyFailed>>

HybridSearchCall ==
    /\ pc = "call"
    /\ fn = "Hybrid"
    /\ FitCall("Hybrid")

\* HybridGuessIndex without the binary search step.
HybridNeverBinary == LineGuessIndex

\* HybridGuessIndex with the condition inverted: bisection first.
HybridBinaryFirst ==
    IF doBinaryStep THEN LineGuessIndex ELSE {(minIndex + maxIndex) \div 2}

\* doBinaryStep ? (minIndex + maxIndex) / 2 : size_t(0.5f + ...)
HybridGuessIndex ==
    IF doBinaryStep THEN {(minIndex + maxIndex) \div 2} ELSE LineGuessIndex

HybridSearchLoop ==
    /\ pc = "Hybrid"
    /\ \E g0 \in HybridGuessIndex : FitLoop(g0, ~doBinaryStep)

BinarySearchCall ==
    /\ pc = "call"
    /\ fn = "Binary Search"
    /\ \E junk \in JunkValues : ret' = [found |-> FALSE, index |-> junk, guesses |-> 0]
    /\ minIndex' = 0
    /\ maxIndex' = SizeSub(Len(values), 1)
    /\ wrapped' = (wrapped \/ Len(values) < 1)
    /\ pc' = "BinarySearch"
    /\ UNCHANGED <<values, genVars, sweepVars, searchValue, fn, min, max, m, b, doBinaryStep, reads,
                   probe, verifyFailed>>

\* TooHigh without the underflow prevention: guessIndex - 1 wraps at 0.
TooHighUnguarded(guessIndex) ==
    [stop |-> FALSE, maxIndex |-> SizeSub(guessIndex, 1), wrapped |-> guessIndex < 1]

\* The guess was too high: with the underflow prevention, the search stops at
\* guessIndex 0 and maxIndex becomes guessIndex - 1 otherwise.
TooHigh(guessIndex) ==
    IF guessIndex = 0
    THEN [stop |-> TRUE, maxIndex |-> maxIndex, wrapped |-> FALSE]
    ELSE [stop |-> FALSE, maxIndex |-> guessIndex - 1, wrapped |-> FALSE]

BinarySearchLoop ==
    /\ pc = "BinarySearch"
    /\ LET guessIndex == (minIndex + maxIndex) \div 2
           r1 == [ret EXCEPT !.guesses = @ + 1]
       IN /\ reads' = Append(reads, guessIndex)
          /\ probe' = [lo |-> minIndex, hi |-> maxIndex, g |-> guessIndex, binary |-> TRUE]
          /\ IF ~InRange(guessIndex)
             THEN /\ pc' = "ub"
                  /\ ret' = r1
                  /\ UNCHANGED <<minIndex, maxIndex, wrapped>>
             ELSE LET guess == At(guessIndex)
                      high == TooHigh(guessIndex)
                      loIndex == IF guess < searchValue THEN guessIndex + 1 ELSE minIndex
                      hiIndex == IF guess > searchValue THEN high.maxIndex ELSE maxIndex
                  IN IF guess = searchValue
                     THEN /\ ret' = [r1 EXCEPT !.found = TRUE, !.index = guessIndex]
                          /\ pc' = "return"
                          /\ UNCHANGED <<minIndex, maxIndex, wrapped>>
                     ELSE IF guess > searchValue /\ high.stop
                     THEN /\ ret' = r1
                          /\ pc' = "return"
                          /\ UNCHANGED <<minIndex, maxIndex, wrapped>>
                     ELSE /\ ret' = r1
                          /\ minIndex' = loIndex
                          /\ maxIndex' = hiIndex
                          /\ wrapped' = (wrapped \/ (guess > searchValue /\ high.wrapped))
                          /\ pc' = IF loIndex > hiIndex THEN "return" ELSE "BinarySearch"
    /\ UNCHANGED <<values, genVars, sweepVars, searchValue, fn, min, max, m, b, doBinaryStep,
                   verifyFailed>>

(* ------------------------------------------------------------------ *)
(* VerifyResults                                                       *)
(* ------------------------------------------------------------------ *)

\* VerifyFailure without the comparison of the values at the two indices.
VerifyFailureExactIndex(vals, sv, result) ==
    LET actualResult == TestList_LinearSearch(vals, sv) IN
    \/ result.found # actualResult.found
    \/ result.found = TRUE /\ result.index # actualResult.index

\* TRUE iff VerifyResults prints VERIFICATION FAILURE for result.
VerifyFailure(vals, sv, result) ==
    LET actualResult == TestList_LinearSearch(vals, sv) IN
    IF result.found # actualResult.found THEN TRUE
    ELSE IF /\ result.found = TRUE
            /\ result.index # actualResult.index
            /\ vals[result.index + 1] # vals[actualResult.index + 1]
    THEN TRUE
    ELSE FALSE

VerifyResults ==
    /\ pc = "return"
    /\ verifyFailed' = VerifyFailure(values, searchValue, ret)
    /\ pc' = "verified"
    /\ UNCHANGED <<values, genVars, sweepVars, searchValue, fn, minIndex, maxIndex, min, max, m, b,
                   doBinaryStep, ret, reads, probe, wrapped>>

(* ------------------------------------------------------------------ *)
(* one trial: a strategy runs on a sorted sequence and is verified     *)
(* ------------------------------------------------------------------ *)

IsSorted(s) == \A i \in 1..(Len(s) - 1) : s[i] <= s[i + 1]

\* Every non-empty sorted sequence of at most MaxLen values in 0..MaxVal.
SortedSeqs ==
    UNION {{s \in [1..n -> 0..MaxVal] : IsSorted(s)} : n \in 1..MaxLen}

\* The sequences and targets of the scenarios of spec section 8.
OutlierScenario == <<0, 10, 20, 30, 40, 50, 60, 70, 80, 90, 9000>>
DuplicateScenario == <<1, 3, 3, 3, 7>>
Scenarios ==
    { <<OutlierScenario, 50>>, <<OutlierScenario, 35>>, <<DuplicateScenario, 3>>,
      <<<<0, 1, 2, 3, 4, 5, 6, 7, 8, 9>>, 7>>, <<<<5>>, 5>> }

Inputs == (SortedSeqs \X (0..(MaxVal + 1))) \cup Scenarios

Init ==
    /\ \E in \in Inputs : values = in[1] /\ searchValue = in[2]
    /\ fn \in TestFns
    /\ pc = "call"
    /\ minIndex = 0 /\ maxIndex = 0 /\ min = 0 /\ max = 0
    /\ m = FZero /\ b = FZero
    /\ doBinaryStep = FALSE
    /\ ret = [found |-> FALSE, index |-> 0, guesses |-> 0]
    /\ reads = <<>>
    /\ probe = NoProbe
    /\ wrapped = FALSE
    /\ verifyFailed = FALSE
    /\ IdleGen
    /\ IdleSweep

Next ==
    \/ LinearSearchCall
    \/ LinearSearchLoop
    \/ LineFitCall
    \/ LineFitLoop
    \/ LineFitBlindReturn
    \/ HybridSearchCall
    \/ HybridSearchLoop
    \/ BinarySearchCall
    \/ BinarySearchLoop
    \/ VerifyResults

Spec == Init /\ [][Next]_vars

\* VerifyResults applied to any candidate result: a found flag and, as the index
\* is read when found is set, an index inside the sequence.
InitVerify ==
    /\ \E in \in Inputs : values = in[1] /\ searchValue = in[2]
    /\ fn \in TestFns
    /\ pc = "return"
    /\ minIndex = 0 /\ maxIndex = 0 /\ min = 0 /\ max = 0
    /\ m = FZero /\ b = FZero
    /\ doBinaryStep = FALSE
    /\ ret \in [found : BOOLEAN, index : 0..(Len(values) - 1), guesses : {0}]
    /\ reads = <<>>
    /\ probe = NoProbe
    /\ wrapped = FALSE
    /\ verifyFailed = FALSE
    /\ IdleGen
    /\ IdleSweep

NextVerify == VerifyResults

SpecVerify == InitVerify /\ [][NextVerify]_vars

(* ------------------------------------------------------------------ *)
(* main: the pool of threads of the accuracy sweep, then the perf tests *)
(* ------------------------------------------------------------------ *)

\* What a trial computes on the vector, target and result of its own thread
\* (MakeFns[].fn, TestFns[].fn, VerifyResults) is modelled by Spec and SpecGen;
\* here a thread's steps are its accesses to what threads can share: nextRow, the
\* static random generators, and the file it writes.

\* threads.resize(numThreads); for (std::thread& t : threads) t = std::thread(...)
MainSpawn ==
    /\ mainPc = "spawn"
    /\ IF spawned < numThreads
       THEN /\ spawned' = spawned + 1
            /\ wpc' = [wpc EXCEPT ![spawned + 1] = "fetch"]
            /\ UNCHANGED mainPc
       ELSE /\ mainPc' = "join"
            /\ UNCHANGED <<spawned, wpc>>
    /\ UNCHANGED <<values, genVars, searchVars, numThreads, joined, nextRow, makeIndex,
                   trial, rngUsers, claims, swept>>

\* size_t makeIndex = nextRow.fetch_add(1), before the loop and at its end
WorkerFetch(w) ==
    /\ wpc[w] = "fetch"
    /\ makeIndex' = [makeIndex EXCEPT ![w] = nextRow]
    /\ nextRow' = nextRow + 1
    /\ claims' = [claims EXCEPT ![nextRow] = @ + 1]
    /\ wpc' = [wpc EXCEPT ![w] = "while"]
    /\ UNCHANGED <<values, genVars, searchVars, numThreads, spawned, joined, mainPc, trial,
                   rngUsers, swept>>

\* while (makeIndex < countof(MakeFns))
WorkerWhile(w) ==
    /\ wpc[w] = "while"
    /\ IF makeIndex[w] < NumMakeFns
       THEN /\ wpc' = [wpc EXCEPT ![w] = "draw"]
            /\ trial' = [trial EXCEPT ![w] = 0]
       ELSE /\ wpc' = [wpc EXCEPT ![w] = "exit"]
            /\ UNCHANGED trial
    /\ UNCHANGED <<values, genVars, searchVars, numThreads, spawned, joined, mainPc, nextRow,
                   makeIndex, rngUsers, claims, swept>>

\* The static std::mt19937 rng the thread draws searchValue from: the one static
\* of the lambda's body, whichever thread runs it.
TargetRng(w) == "worker"

\* size_t searchValue = dist(rng): the call starts ...
WorkerDrawBegin(w) ==
    /\ wpc[w] = "draw"
    /\ rngUsers' = [rngUsers EXCEPT ![TargetRng(w)] = @ \cup {w}]
    /\ wpc' = [wpc EXCEPT ![w] = "drawing"]
    /\ UNCHANGED <<values, genVars, searchVars, numThreads, spawned, joined, mainPc, nextRow,
                   makeIndex, trial, claims, swept>>

\* ... and returns.
WorkerDrawEnd(w) ==
    /\ wpc[w] = "drawing"
    /\ rngUsers' = [rngUsers EXCEPT ![TargetRng(w)] = @ \ {w}]
    /\ wpc' = [wpc EXCEPT ![w] = "make"]
    /\ UNCHANGED <<values, genVars, searchVars, numThreads, spawned, joined, mainPc, nextRow,
                   makeIndex, trial, claims, swept>>

\* MakeFns[makeIndex].fn(values, numValues): MakeFns[0] is MakeList_Random, which
\* draws from its own static rng; the other generators draw nothing.
WorkerMakeBegin(w) ==
    /\ wpc[w] = "make"
    /\ IF makeIndex[w] = 0
       THEN /\ rngUsers' = [rngUsers EXCEPT !["MakeList_Random"] = @ \cup {w}]
            /\ wpc' = [wpc EXCEPT ![w] = "making"]
       ELSE /\ wpc' = [wpc EXCEPT ![w] = "test"]
            /\ UNCHANGED rngUsers
    /\ UNCHANGED <<values, genVars, searchVars, numThreads, spawned, joined, mainPc, nextRow,
                   makeIndex, trial, claims, swept>>

WorkerMakeEnd(w) ==
    /\ wpc[w] = "making"
    /\ rngUsers' = [rngUsers EXCEPT !["MakeList_Random"] = @ \ {w}]
    /\ wpc' = [wpc EXCEPT ![w] = "test"]
    /\ UNCHANGED <<values, genVars, searchVars, numThreads, spawned, joined, mainPc, nextRow,
                   makeIndex, trial, claims, swept>>

\* TestFns[testIndex].fn(values, searchValue), VerifyResults and the statistics,
\* all on locals of the thread; then the next trial or the end of the loops.
WorkerTest(w) ==
    /\ wpc[w] = "test"
    /\ trial' = [trial EXCEPT ![w] = @ + 1]
    /\ wpc' = [wpc EXCEPT ![w] = IF trial[w] + 1 < TrialsPerSweep THEN "draw" ELSE "write"]
    /\ UNCHANGED <<values, genVars, searchVars, numThreads, spawned, joined, mainPc, nextRow,
                   makeIndex, rngUsers, claims, swept>>

\* The csv of the generator is written to out/<name>.csv; "Done with" is printed.
WorkerWrite(w) ==
    /\ wpc[w] = "write"
    /\ swept' = swept \cup {makeIndex[w]}
    /\ wpc' = [wpc EXCEPT ![w] = "fetch"]
    /\ UNCHANGED <<values, genVars, searchVars, numThreads, spawned, joined, mainPc, nextRow,
                   makeIndex, trial, rngUsers, claims>>

\* for (std::thread& t : threads) t.join()
MainJoin ==
    /\ mainPc = "join"
    /\ IF joined < numThreads
       THEN /\ wpc[joined + 1] = "exit"
            /\ joined' = joined + 1
            /\ UNCHANGED mainPc
       ELSE /\ mainPc' = "perf"
            /\ UNCHANGED joined
    /\ UNCHANGED <<values, genVars, searchVars, numThreads, spawned, nextRow, wpc, makeIndex,
                   trial, rngUsers, claims, swept>>

\* Do perf tests: the search values are drawn from main's static rng ...
MainPerfDrawBegin ==
    /\ mainPc = "perf"
    /\ rngUsers' = [rngUsers EXCEPT !["main"] = @ \cup {MainThread}]
    /\ mainPc' = "perfDrawing"
    /\ UNCHANGED <<values, genVars, searchVars, numThreads, spawned, joined, nextRow, wpc,
                   makeIndex, trial, claims, swept>>

MainPerfDrawEnd ==
    /\ mainPc = "perfDrawing"
    /\ rngUsers' = [rngUsers EXCEPT !["main"] = @ \ {MainThread}]
    /\ mainPc' = "perfMake"
    /\ UNCHANGED <<values, genVars, searchVars, numThreads, spawned, joined, nextRow, wpc,
                   makeIndex, trial, claims, swept>>

\* ... and every generator is run by main, MakeList_Random with its static rng.
MainPerfMakeBegin ==
    /\ mainPc = "perfMake"
    /\ rngUsers' = [rngUsers EXCEPT !["MakeList_Random"] = @ \cup {MainThread}]
    /\ mainPc' = "perfMaking"
    /\ UNCHANGED <<values, genVars, searchVars, numThreads, spawned, joined, nextRow, wpc,
                   makeIndex, trial, claims, swept>>

MainPerfMakeEnd ==
    /\ mainPc = "perfMaking"
    /\ rngUsers' = [rngUsers EXCEPT !["MakeList_Random"] = @ \ {MainThread}]
    /\ mainPc' = "end"
    /\ UNCHANGED <<values, genVars, searchVars, numThreads, spawned, joined, nextRow, wpc,
                   makeIndex, trial, claims, swept>>

InitSweep ==
    /\ numThreads \in 0..MaxThreads
    /\ spawned = 0
    /\ joined = 0
    /\ mainPc = "spawn"
    /\ nextRow = 0
    /\ wpc = [w \in Threads |-> "unborn"]
    /\ makeIndex = [w \in Threads |-> 0]
    /\ trial = [w \in Threads |-> 0]
    /\ rngUsers = [r \in Rngs |-> {}]
    /\ claims = [i \in 0..(NumMakeFns + MaxThreads - 1) |-> 0]
    /\ swept = {}
    /\ values = <<>>
    /\ IdleGen
    /\ IdleSearch

NextSweep ==
    \/ MainSpawn
    \/ \E w \in Threads : WorkerFetch(w)
    \/ \E w \in Threads : WorkerWhile(w)
    \/ \E w \in Threads : WorkerDrawBegin(w)
    \/ \E w \in Threads : WorkerDrawEnd(w)
    \/ \E w \in Threads : WorkerMakeBegin(w)
    \/ \E w \in Threads : WorkerMakeEnd(w)
    \/ \E w \in Threads : WorkerTest(w)
    \/ \E w \in Threads : WorkerWrite(w)
    \/ MainJoin
    \/ MainPerfDrawBegin
    \/ MainPerfDrawEnd
    \/ MainPerfMakeBegin
    \/ MainPerfMakeEnd

SpecSweep == InitSweep /\ [][NextSweep]_vars

(* ------------------------------------------------------------------ *)
(* properties of the strategies                                        *)
(* ------------------------------------------------------------------ *)

Returned == pc \in {"return", "verified"}
Present == \E i \in 1..Len(values) : values[i] = searchValue
\* The first position of the target, as a C++ index.
FirstIndex == (CHOOSE i \in 1..Len(values) :
                  values[i] = searchValue /\ \A j \in 1..(i - 1) : values[j] # searchValue) - 1
HasDuplicates == \E i \in 1..(Len(values) - 1) : values[i] = values[i + 1]

\* C1: on a non-empty sorted sequence, duplicates or not, a target that occurs in
\* it is reported by each of the five strategies as found, at an index inside the
\* sequence whose value is the target.
C1_HitsFound ==
    (Returned /\ Present) =>
        /\ ret.found
        /\ ret.index \in 0..(Len(values) - 1)
        /\ values[ret.index + 1] = searchValue

\* C1 witness: the hybrid search found, in its loop, a target of a sequence with
\* duplicates.
C1_Witness ==
    /\ pc = "return" /\ fn = "Hybrid" /\ HasDuplicates /\ Present
    /\ ret.found /\ ret.guesses >= 2 /\ values[ret.index + 1] = searchValue

\* C2: a target below the first or above the last element is reported as not
\* found by each of the five strategies.
C2_MissesNotFound ==
    (Returned /\ (searchValue < values[1] \/ searchValue > values[Len(values)])) =>
        ~ret.found

\* C2 witness: the line fit returned from a search for a target above the last.
C2_Witness ==
    /\ pc = "return" /\ fn = "Line Fit" /\ Len(values) >= 2
    /\ searchValue > values[Len(values)] /\ ~ret.found

\* Every read so far was at index 0 and no unsigned subtraction wrapped.
OnlyIndexZero ==
    /\ \A i \in 1..Len(reads) : reads[i] = 0
    /\ ~wrapped
    /\ pc # "ub"

\* C3 as claimed: on a sequence of length 1 each of the five strategies, Line Fit
\* Blind included, returns 0 or 1 guesses, with no index underflow and no index
\* other than 0.
C3_OneGuessAtMost ==
    Len(values) = 1 =>
        /\ OnlyIndexZero
        /\ Returned => ret.guesses \in {0, 1}

\* C3 amended: on a sequence of length 1 Linear Search and Binary Search return
\* 1 guess, Line Fit and Hybrid 0, and Line Fit Blind 2 (the two end point reads
\* it counts); no index underflows and none but 0 is read.
C3_OneGuessButBlind ==
    Len(values) = 1 =>
        /\ OnlyIndexZero
        /\ Returned =>
             /\ fn \in {"Linear Search", "Binary Search"} => ret.guesses = 1
             /\ fn \in {"Line Fit", "Hybrid"} => ret.guesses = 0
             /\ fn = "Line Fit Blind" => ret.guesses = 2

\* C3 witness: the binary search returned from a sequence of length 1 whose only
\* element is above the target, where guessIndex - 1 would underflow.
C3_Witness ==
    /\ pc = "return" /\ fn = "Binary Search" /\ Len(values) = 1
    /\ values[1] > searchValue /\ ret.guesses = 1 /\ reads = <<0>>

\* C4: VerifyResults reports a failure exactly when the found flags differ, or
\* both are found at different indices holding different values; so a result
\* found at any index that holds the target is accepted.
C4_VerifyExact ==
    pc = "verified" =>
        /\ verifyFailed <=>
              \/ ret.found # Present
              \/ /\ ret.found /\ Present
                 /\ ret.index # FirstIndex
                 /\ values[ret.index + 1] # searchValue
        /\ (ret.found /\ values[ret.index + 1] = searchValue) => ~verifyFailed

\* C4 witness: in [1,3,3,3,7] with target 3, a result found at index 3, which is
\* not the index 1 of the linear search, was accepted.
C4_Witness ==
    /\ pc = "verified" /\ values = DuplicateScenario /\ searchValue = 3
    /\ ret.found /\ ret.index = 3 /\ FirstIndex = 1 /\ ~verifyFailed

\* C5 as claimed: a strategy that returns found = false returns the index of the
\* last element it read.
C5_IndexIsLastRead ==
    (Returned /\ ~ret.found) =>
        /\ reads # <<>>
        /\ ret.index = reads[Len(reads)]

\* C8: on [0,10,...,90,9000] with target 50 the line fit takes 5 guesses, the
\* binary search 1 and the hybrid search 2: the line fit more than the binary
\* search, the hybrid search fewer than the line fit.
C8_OutlierGuesses ==
    (Returned /\ values = OutlierScenario /\ searchValue = 50) =>
        /\ ret.found
        /\ fn = "Line Fit" => ret.guesses = 5
        /\ fn = "Binary Search" => ret.guesses = 1
        /\ fn = "Hybrid" => (ret.guesses = 2 /\ ret.guesses < 5)

\* C8 witness: the line fit returned from the outlier scenario after creeping up
\* one index per guess.
C8_Witness ==
    /\ pc = "return" /\ values = OutlierScenario /\ searchValue = 50
    /\ fn = "Line Fit" /\ ret.guesses = 5 /\ reads = <<0, 10, 1, 2, 3, 4, 5>>

\* C9 as claimed: every iteration of the line fit and of the hybrid search
\* probes an index strictly inside the bracket it started with.
C9_ProbeInsideBracket ==
    (fn \in {"Line Fit", "Hybrid"} /\ pc # "call" /\ ret.guesses >= 1) =>
        (probe.lo < probe.g /\ probe.g < probe.hi)

(* ------------------------------------------------------------------ *)
(* properties of the generators                                        *)
(* ------------------------------------------------------------------ *)

\* C6 as claimed: a generator asked for a sequence of length 1 divides by no
\* zero divisor.
C6_NoZeroDivisor ==
    (genPc = "made" /\ count = 1 /\ genFn # "Random") => ~divZero

\* C7 as claimed: element i of the linear generator is the integer nearest to
\* i * c_maxValue / (count - 1).
C7_Rounded ==
    (genPc = "made" /\ genFn = "Linear" /\ count >= 2) =>
        \A i \in 0..(count - 1) :
            values[i + 1] = (2 * i * c_maxValue + (count - 1)) \div (2 * (count - 1))

\* C7 amended: element i of the linear generator is the truncation of the
\* single-precision product: floor(i * c_maxValue / (count - 1)), or one less
\* where that quotient is an integer that the product falls just short of.
C7_Truncated ==
    (genPc = "made" /\ genFn = "Linear" /\ count >= 2) =>
        \A i \in 0..(count - 1) :
            LET q == (i * c_maxValue) \div (count - 1)
                exact == (i * c_maxValue) % (count - 1) = 0
            IN IF exact THEN values[i + 1] \in {q - 1, q} ELSE values[i + 1] = q

\* C7 witness: the linear generator made 4 elements, the second 666 and the
\* third 1333, where the nearest integers are 667 and 1333.
C7_Witness ==
    /\ genPc = "made" /\ genFn = "Linear"
    /\ count = 4 /\ values = <<0, 666, 1333, 2000>>

\* C12: the k-th iteration of Hybrid (k = guesses so far + 1) probes the
\* clamped line-fit guess when k is odd and the clamped midpoint
\* (minIndex + maxIndex) / 2 when k is even, and the mode flips after every
\* iteration that stays in the loop, whatever the bracket became.
C12_ModeByParity ==
    [][pc = "Hybrid" =>
         LET k == ret.guesses + 1
             even == k % 2 = 0
             g0s == IF even THEN {(minIndex + maxIndex) \div 2} ELSE LineGuessIndex
         IN /\ ret'.guesses = k
            /\ doBinaryStep = even
            /\ probe'.binary = even
            /\ probe'.g \in {Clamp(minIndex + 1, SizeSub(maxIndex, 1), g0) : g0 \in g0s}
            /\ pc' = "Hybrid" => doBinaryStep' = ~doBinaryStep]_vars

\* C12 witness: on the outlier sequence with target 35, Hybrid has done three
\* iterations (line fit at 1, midpoint 5 of 1..10, line fit at 4 of 1..5,
\* after reading both ends) and
\* stays in the loop with the bisection mode set for the fourth.
C12_Witness ==
    /\ fn = "Hybrid" /\ pc = "Hybrid"
    /\ values = OutlierScenario /\ searchValue = 35
    /\ ret.guesses = 3 /\ reads = <<0, 10, 1, 5, 4>>
    /\ probe = [lo |-> 1, hi |-> 5, g |-> 4, binary |-> FALSE]
    /\ doBinaryStep

\* The target lies between the first and the last element and is no element.
AbsentBetween ==
    /\ Len(values) >= 1
    /\ values[1] <= searchValue /\ searchValue <= values[Len(values)]
    /\ ~Present

\* A trial of Binary Search, Line Fit or Hybrid on such an input.
BracketedMiss == fn \in {"Binary Search", "Line Fit", "Hybrid"} /\ AbsentBetween

\* The strategy has been called and has not returned.
InLoop == pc \in {"LineFit", "Hybrid", "BinarySearch"}

\* C13: on a non-empty sorted sequence and a target between the first and the
\* last element that does not occur, Binary Search, Line Fit and Hybrid read
\* only indices 0..N-1 and return found = false, which the verifier accepts;
\* they terminate: every pass through the loop is one more guess, and no run
\* makes more than N guesses.
C13_BracketedMissTerminates ==
    /\ [](BracketedMiss =>
            /\ \A i \in 1..Len(reads) : InRange(reads[i])
            /\ ~wrapped /\ pc # "ub"
            /\ ret.guesses <= Len(values)
            /\ Returned => ~ret.found
            /\ pc = "verified" => ~verifyFailed)
    /\ [][(BracketedMiss /\ InLoop) => ret'.guesses = ret.guesses + 1]_vars

\* C13 witness: Hybrid returned found = false from the outlier sequence with
\* target 35 after five guesses, every read inside the sequence.
C13_Witness ==
    /\ BracketedMiss /\ fn = "Hybrid" /\ pc = "verified"
    /\ values = OutlierScenario /\ searchValue = 35
    /\ ~ret.found /\ ret.guesses = 5 /\ ~verifyFailed
    /\ reads = <<0, 10, 1, 5, 4, 2, 3>>

(* ------------------------------------------------------------------ *)
(* properties of the pool                                              *)
(* ------------------------------------------------------------------ *)

\* C10 as claimed: no two threads are ever inside a call on the same random
\* generator instance at the same time.
C10_RngExclusive ==
    \A r \in Rngs : Cardinality(rngUsers[r]) <= 1

\* the benchmark of main has begun: every join has returned
JoinReturned == mainPc \in {"perf", "perfDrawing", "perfMake", "perfMaking", "end"}

\* C11 as claimed: no generator index is ever claimed by two workers, and once
\* the last join has returned each of the indices 0..5 has been claimed by
\* exactly one worker and its sweep is complete.
C11_EachIndexOnce ==
    /\ \A i \in 0..(NumMakeFns - 1) : claims[i] <= 1
    /\ JoinReturned =>
           /\ \A i \in 0..(NumMakeFns - 1) : claims[i] = 1
           /\ swept = 0..(NumMakeFns - 1)

\* C11 for a pool of at least one worker: claimed once each, all swept.
C11_EachIndexOnceWithWorkers ==
    numThreads >= 1 => C11_EachIndexOnce

\* a pool of at least one worker was joined after sweeping all six generators
C11_PoolSwept ==
    JoinReturned /\ numThreads >= 1 /\ swept = 0..(NumMakeFns - 1)

====
